---- MODULE Spec2Model ----
(***************************************************************************)
(* Model of spotifyd's src/process.rs: the player-event encoder            *)
(* (spawn_program_on_event / audio_item_to_env), the blocking runner       *)
(* (run_program) and the spawned-child wrapper (spawn_program,             *)
(* Child::wait) relaying a child's stdout to the host's stdout.            *)
(***************************************************************************)
EXTENDS Integers, Sequences, FiniteSets, TLC

\* ------------------------------------------------------------------------
\* Bounds of the model
\* ------------------------------------------------------------------------
NumTasks == 2       \* spawn/wait pairs in flight in the concurrent specification
MaxOut == 2         \* longest captured stdout/stderr of a spawned child
MaxConcOut == 2     \* longest captured stdout in the concurrent specification
MaxLen == 2         \* longest captured stdout/stderr of run_program
MaxCovers == 3      \* longest cover list of an audio item

Tasks == 1..NumTasks

\* Bytes a child may write: 'A', the two bytes of U+00E9, and 0xFF which
\* never occurs in UTF-8.
Bytes == {65, 195, 169, 255}

RECURSIVE SeqsUpTo(_, _)
SeqsUpTo(S, n) ==
    IF n = 0 THEN {<<>>}
    ELSE LET shorter == SeqsUpTo(S, n - 1)
         IN  shorter \cup {Append(s, x) : s \in {q \in shorter : Len(q) = n - 1}, x \in S}

\* ------------------------------------------------------------------------
\* Text conversions
\* ------------------------------------------------------------------------
Digits == <<"0", "1", "2", "3", "4", "5", "6", "7", "8", "9">>

\* u16/u32/u64 ::to_string(): decimal text without leading zeros.
RECURSIVE DecimalText(_)
DecimalText(n) ==
    IF n < 10 THEN Digits[n + 1]
    ELSE DecimalText(n \div 10) \o Digits[(n % 10) + 1]

\* bool::to_string()
BoolToString(b) == IF b THEN "true" ELSE "false"

Base62Digits ==
    <<"0", "1", "2", "3", "4", "5", "6", "7", "8", "9",
      "a", "b", "c", "d", "e", "f", "g", "h", "i", "j", "k", "l", "m",
      "n", "o", "p", "q", "r", "s", "t", "u", "v", "w", "x", "y", "z",
      "A", "B", "C", "D", "E", "F", "G", "H", "I", "J", "K", "L", "M",
      "N", "O", "P", "Q", "R", "S", "T", "U", "V", "W", "X", "Y", "Z">>

Base62Len == 22

RECURSIVE Base62Text(_, _)
Base62Text(n, len) ==
    IF len = 0 THEN ""
    ELSE Base62Text(n \div 62, len - 1) \o Base62Digits[(n % 62) + 1]

\* SpotifyId::to_base62(): Result<String, Error>.  A track identifier is
\* [id, encodable]; the encoding is undefined when encodable is FALSE.
ToBase62(track_id) ==
    IF track_id.encodable
    THEN [tag |-> "Ok", val |-> Base62Text(track_id.id, Base62Len)]
    ELSE [tag |-> "Err"]

IsCont(b) == b >= 128 /\ b <= 191

\* Number of bytes of the UTF-8 scalar starting at bs[i], 0 if there is none.
Utf8Width(bs, i) ==
    LET b == bs[i]
        n == Len(bs)
    IN  IF b < 128 THEN 1
        ELSE IF b >= 194 /\ b <= 223
             THEN IF i + 1 <= n /\ IsCont(bs[i + 1]) THEN 2 ELSE 0
        ELSE IF b >= 224 /\ b <= 239
             THEN IF /\ i + 2 <= n
                     /\ IsCont(bs[i + 1]) /\ IsCont(bs[i + 2])
                     /\ (b = 224 => bs[i + 1] >= 160)
                     /\ (b = 237 => bs[i + 1] <= 159)
                  THEN 3 ELSE 0
        ELSE IF b >= 240 /\ b <= 244
             THEN IF /\ i + 3 <= n
                     /\ IsCont(bs[i + 1]) /\ IsCont(bs[i + 2]) /\ IsCont(bs[i + 3])
                     /\ (b = 240 => bs[i + 1] >= 144)
                     /\ (b = 244 => bs[i + 1] <= 143)
                  THEN 4 ELSE 0
        ELSE 0

Utf8Scalar(bs, i, w) ==
    IF w = 1 THEN bs[i]
    ELSE IF w = 2 THEN (bs[i] - 192) * 64 + (bs[i + 1] - 128)
    ELSE IF w = 3 THEN (bs[i] - 224) * 4096 + (bs[i + 1] - 128) * 64 + (bs[i + 2] - 128)
    ELSE (bs[i] - 240) * 262144 + (bs[i + 1] - 128) * 4096
         + (bs[i + 2] - 128) * 64 + (bs[i + 3] - 128)

RECURSIVE Utf8From(_, _)
Utf8From(bs, i) ==
    IF i > Len(bs) THEN [tag |-> "Ok", val |-> <<>>]
    ELSE LET w == Utf8Width(bs, i)
         IN  IF w = 0 THEN [tag |-> "Err"]
             ELSE LET rest == Utf8From(bs, i + w)
                  IN  IF rest.tag = "Err" THEN rest
                      ELSE [tag |-> "Ok", val |-> <<Utf8Scalar(bs, i, w)>> \o rest.val]

\* String::from_utf8 / str::from_utf8: the text (its scalar values) or an error.
FromUtf8(bs) == Utf8From(bs, 1)

\* ------------------------------------------------------------------------
\* crate::error::Error, as far as process.rs constructs it: shell, command
\* and a message that is an OS cause, a text, or nothing.
\* ------------------------------------------------------------------------
subprocess(shell, cmd) ==
    [shell |-> shell, cmd |-> cmd, msg |-> [kind |-> "None"]]

subprocess_with_err(shell, cmd, e) ==
    [shell |-> shell, cmd |-> cmd, msg |-> [kind |-> "Error", cause |-> e]]

subprocess_with_str(shell, cmd, s) ==
    [shell |-> shell, cmd |-> cmd, msg |-> [kind |-> "String", text |-> s]]

Ok(v) == [tag |-> "Ok", val |-> v]
Err(e) == [tag |-> "Err", err |-> e]
NoResult == [tag |-> "None"]
Unit == <<>>

\* ------------------------------------------------------------------------
\* Inputs: PlayerEvent values
\* ------------------------------------------------------------------------
Shells == {"/bin/sh"}
Cmds == {"hook"}
OsErrors == {"ENOENT", "EPIPE"}

TrackIds ==
    { [id |-> 0, encodable |-> TRUE],
      [id |-> 238327, encodable |-> TRUE],
      [id |-> 7, encodable |-> FALSE] }
PlayRequestIds == {0, 42}
Positions == {0, 1500}
Volumes == {0, 65535}
Durations == {180000}
Names == {"song"}
ConnectionIds == {"conn"}
UserNames == {"user"}

CoverPool ==
    { [url |-> "u100", width |-> 100],
      [url |-> "u400", width |-> 400],
      [url |-> "u250", width |-> 250],
      [url |-> "v400", width |-> 400] }

AudioItems ==
    [track_id : TrackIds, name : Names, duration_ms : Durations,
     covers : SeqsUpTo(CoverPool, MaxCovers)]

TrackPlayVariants ==
    {"Stopped", "TimeToPreloadNextTrack", "EndOfTrack", "Unavailable"}
TrackPlayPosVariants ==
    {"Loading", "Playing", "Paused", "PositionCorrection", "Seeked"}
SessionVariants == {"SessionConnected", "SessionDisconnected"}

Events ==
    [variant : {"PlayRequestIdChanged"}, play_request_id : PlayRequestIds]
    \cup [variant : TrackPlayVariants, track_id : TrackIds,
          play_request_id : PlayRequestIds]
    \cup [variant : TrackPlayPosVariants, track_id : TrackIds,
          play_request_id : PlayRequestIds, position_ms : Positions]
    \cup [variant : {"Preloading"}, track_id : TrackIds]
    \cup [variant : {"VolumeChanged"}, volume : Volumes]
    \cup [variant : {"TrackChanged"}, audio_item : AudioItems]
    \cup [variant : SessionVariants, connection_id : ConnectionIds,
          user_name : UserNames]
    \cup [variant : {"SessionClientChanged"}, client_id : {"cid"},
          client_name : {"cname"}, client_brand_name : {"brand"},
          client_model_name : {"model"}]
    \cup [variant : {"ShuffleChanged"}, shuffle : BOOLEAN]
    \cup [variant : {"RepeatChanged"}, repeat : BOOLEAN]
    \cup [variant : {"AutoPlayChanged"}, auto_play : BOOLEAN]
    \cup [variant : {"FilterExplicitContentChanged"}, filter : BOOLEAN]

\* ------------------------------------------------------------------------
\* The encoder
\* ------------------------------------------------------------------------
EmptyEnv == [k \in {} |-> ""]

\* HashMap::insert: the new value replaces an earlier one under the same key.
Insert(env, k, v) == (k :> v) @@ env

\* A max_by_key that would keep the earlier of two covers of equal width.
RECURSIVE MaxByKeyFirst(_)
MaxByKeyFirst(covers) ==
    IF Len(covers) = 1 THEN covers[1]
    ELSE LET n == Len(covers)
             x == MaxByKeyFirst(SubSeq(covers, 1, n - 1))
             y == covers[n]
         IN  IF x.width >= y.width THEN x ELSE y

\* Iterator::max_by_key(|c| c.width) on a non-empty list: a left fold that
\* keeps the accumulated cover only when it is strictly wider than the next.
RECURSIVE MaxByKey(_)
MaxByKey(covers) ==
    IF Len(covers) = 1 THEN covers[1]
    ELSE LET n == Len(covers)
             x == MaxByKey(SubSeq(covers, 1, n - 1))
             y == covers[n]
         IN  IF x.width > y.width THEN x ELSE y

\* Result::unwrap_or_default on the base62 text.
UnwrapOrDefault(r) == IF r.tag = "Ok" THEN r.val ELSE ""

\* An audio_item_to_env that would set TRACK_COVER also without covers.
AudioItemToEnvAlwaysCover(audio_item, env) ==
    LET e1 == Insert(env, "TRACK_ID", UnwrapOrDefault(ToBase62(audio_item.track_id)))
        e2 == Insert(e1, "TRACK_NAME", audio_item.name)
        e3 == Insert(e2, "TRACK_DURATION", DecimalText(audio_item.duration_ms))
    IN  Insert(e3, "TRACK_COVER",
               IF audio_item.covers # <<>> THEN MaxByKey(audio_item.covers).url ELSE "")

audio_item_to_env(audio_item, env) ==
    LET e1 == Insert(env, "TRACK_ID", UnwrapOrDefault(ToBase62(audio_item.track_id)))
        e2 == Insert(e1, "TRACK_NAME", audio_item.name)
        e3 == Insert(e2, "TRACK_DURATION", DecimalText(audio_item.duration_ms))
    IN  IF audio_item.covers # <<>>
        THEN Insert(e3, "TRACK_COVER", MaxByKey(audio_item.covers).url)
        ELSE e3

\* A REPEAT text that would render the boolean itself.
RepeatTextBool(repeat) == BoolToString(repeat)

\* if repeat { "all" } else { "none" }
RepeatText(repeat) == IF repeat THEN "all" ELSE "none"

\* The PLAYER_EVENT token of each match arm.
Token(variant) ==
    CASE variant = "PlayRequestIdChanged" -> "playrequestid_changed"
      [] variant = "Stopped" -> "stop"
      [] variant = "Loading" -> "load"
      [] variant = "Preloading" -> "preloading"
      [] variant = "Playing" -> "start"
      [] variant = "Paused" -> "pause"
      [] variant = "TimeToPreloadNextTrack" -> "preload"
      [] variant = "EndOfTrack" -> "endoftrack"
      [] variant = "Unavailable" -> "unavailable"
      [] variant = "VolumeChanged" -> "volumeset"
      [] variant = "PositionCorrection" -> "positioncorrection"
      [] variant = "Seeked" -> "seeked"
      [] variant = "TrackChanged" -> "change"
      [] variant = "SessionConnected" -> "sessionconnected"
      [] variant = "SessionDisconnected" -> "sessiondisconnected"
      [] variant = "SessionClientChanged" -> "clientchanged"
      [] variant = "ShuffleChanged" -> "shuffle_changed"
      [] variant = "RepeatChanged" -> "repeat_changed"
      [] variant = "AutoPlayChanged" -> "autoplay_changed"
      [] variant = "FilterExplicitContentChanged" -> "filterexplicit_changed"

\* The identifier a match arm passes to to_base62().unwrap(), if any.
UnwrappedIds(event) ==
    IF event.variant \in TrackPlayVariants \cup TrackPlayPosVariants \cup {"Preloading"}
    THEN {event.track_id}
    ELSE IF event.variant = "TrackChanged" THEN {event.audio_item.track_id}
    ELSE {}

\* Result::unwrap() panics on Err.
Panics(event) == \E id \in UnwrappedIds(event) : ToBase62(id).tag = "Err"

\* The match of spawn_program_on_event, for an event on which no unwrap panics.
EventEnv(event) ==
    LET v == event.variant
        e0 == Insert(EmptyEnv, "PLAYER_EVENT", Token(v))
    IN  CASE v = "PlayRequestIdChanged" ->
               Insert(e0, "PLAY_REQUEST_ID", DecimalText(event.play_request_id))
          [] v \in TrackPlayVariants ->
               Insert(Insert(e0, "TRACK_ID", ToBase62(event.track_id).val),
                      "PLAY_REQUEST_ID", DecimalText(event.play_request_id))
          [] v \in TrackPlayPosVariants ->
               Insert(Insert(Insert(e0, "TRACK_ID", ToBase62(event.track_id).val),
                             "PLAY_REQUEST_ID", DecimalText(event.play_request_id)),
                      "POSITION_MS", DecimalText(event.position_ms))
          [] v = "Preloading" ->
               Insert(e0, "TRACK_ID", ToBase62(event.track_id).val)
          [] v = "VolumeChanged" ->
               Insert(e0, "VOLUME", DecimalText(event.volume))
          [] v = "TrackChanged" ->
               audio_item_to_env(event.audio_item,
                   Insert(e0, "TRACK_ID", ToBase62(event.audio_item.track_id).val))
          [] v \in SessionVariants ->
               Insert(Insert(e0, "CONNECTION_ID", event.connection_id),
                      "USERNAME", event.user_name)
          [] v = "SessionClientChanged" ->
               Insert(Insert(Insert(Insert(e0, "CLIENT_ID", event.client_id),
                                    "CLIENT_NAME", event.client_name),
                             "CLIENT_BRAND", event.client_brand_name),
                      "CLIENT_MODEL", event.client_model_name)
          [] v = "ShuffleChanged" ->
               Insert(e0, "SHUFFLE", BoolToString(event.shuffle))
          [] v = "RepeatChanged" ->
               Insert(e0, "REPEAT", RepeatText(event.repeat))
          [] v = "AutoPlayChanged" ->
               Insert(e0, "AUTOPLAY", BoolToString(event.auto_play))
          [] v = "FilterExplicitContentChanged" ->
               Insert(e0, "FILTEREXPLICIT", BoolToString(event.filter))

\* ------------------------------------------------------------------------
\* State
\* ------------------------------------------------------------------------
VARIABLES
    pc,          \* per task: where its spawn/wait pair stands
    event,       \* per task: the PlayerEvent passed to spawn_program_on_event
    env,         \* per task: the environment map given to the child
    child,       \* per task: the Child handle and its OS process
    output,      \* per task: the Output that wait_with_output() returned to wait
    sent,        \* per task: bytes of output.stdout accepted by write_all so far
    buffered,    \* per task: bytes accepted by its Stdout handle, not yet written
    hostStdout,  \* the host's stdout: <<task, byte>> in the order written
    result,      \* per task: what spawn_program_on_event or wait returned
    rp           \* the last call of run_program: arguments, output and result

vars == <<pc, event, env, child, output, sent, buffered, hostStdout, result, rp>>

NoEvent == [variant |-> "None"]
NoChild == [state |-> "none"]
NoOutput == [captured |-> FALSE]
NoCall == [called |-> FALSE]

Init ==
    /\ pc = [t \in Tasks |-> "idle"]
    /\ event = [t \in Tasks |-> NoEvent]
    /\ env = [t \in Tasks |-> EmptyEnv]
    /\ child = [t \in Tasks |-> NoChild]
    /\ output = [t \in Tasks |-> NoOutput]
    /\ sent = [t \in Tasks |-> 0]
    /\ buffered = [t \in Tasks |-> <<>>]
    /\ hostStdout = <<>>
    /\ result = [t \in Tasks |-> NoResult]
    /\ rp = NoCall

\* ------------------------------------------------------------------------
\* run_program
\* ------------------------------------------------------------------------
\* What Command::output() yields: an OS error, or the exit status with the
\* captured streams.
RunOutputs(n) ==
    [tag : {"Err"}, cause : OsErrors]
    \cup [tag : {"Ok"}, status : {0, 1}, stdout : SeqsUpTo(Bytes, n),
          stderr : SeqsUpTo(Bytes, n)]

\* A run_program that would not look at the exit status.
run_program_any_status(shell, cmd, o) ==
    IF o.tag = "Err" THEN Err(subprocess_with_err(shell, cmd, o.cause))
    ELSE LET s == FromUtf8(o.stdout)
         IN  IF s.tag = "Err" THEN Err(subprocess(shell, cmd))
             ELSE Ok(s.val)

\* The body of run_program after output() returned.
run_program(shell, cmd, o) ==
    IF o.tag = "Err" THEN Err(subprocess_with_err(shell, cmd, o.cause))
    ELSE IF o.status # 0
         THEN LET s == FromUtf8(o.stderr)
              IN  IF s.tag = "Err" THEN Err(subprocess(shell, cmd))
                  ELSE Err(subprocess_with_str(shell, cmd, s.val))
         ELSE LET s == FromUtf8(o.stdout)
              IN  IF s.tag = "Err" THEN Err(subprocess(shell, cmd))
                  ELSE Ok(s.val)

RunProgram(shell, cmd, o) ==
    /\ ~rp.called
    /\ rp' = [called |-> TRUE, shell |-> shell, cmd |-> cmd, output |-> o,
              result |-> run_program(shell, cmd, o)]
    /\ UNCHANGED <<pc, event, env, child, output, sent, buffered, hostStdout, result>>

\* ------------------------------------------------------------------------
\* spawn_program_on_event and spawn_program
\* ------------------------------------------------------------------------
\* What Command::spawn() yields: an OS error, or a running process that will
\* or will not ever exit.
SpawnOutcomes(hangs) ==
    [tag : {"Err"}, cause : OsErrors] \cup [tag : {"Ok"}, hung : hangs]

SpawnProgramOnEvent(t, shell, cmd, ev, os) ==
    /\ pc[t] = "idle"
    /\ event' = [event EXCEPT ![t] = ev]
    /\ IF Panics(ev)
       THEN /\ pc' = [pc EXCEPT ![t] = "panicked"]
            /\ UNCHANGED <<env, child, result>>
       ELSE /\ env' = [env EXCEPT ![t] = EventEnv(ev)]
            /\ IF os.tag = "Err"
               THEN /\ pc' = [pc EXCEPT ![t] = "spawn_failed"]
                    /\ result' = [result EXCEPT
                                    ![t] = Err(subprocess_with_err(shell, cmd, os.cause))]
                    /\ UNCHANGED child
               ELSE /\ pc' = [pc EXCEPT ![t] = "spawned"]
                    /\ child' = [child EXCEPT
                                   ![t] = [state |-> "running", hung |-> os.hung,
                                           shell |-> shell, cmd |-> cmd]]
                    /\ UNCHANGED result
    /\ UNCHANGED <<output, sent, buffered, hostStdout, rp>>

\* ------------------------------------------------------------------------
\* The child process and Child::wait
\* ------------------------------------------------------------------------
\* Bytes a spawned child may write: 'A' and the two bytes of U+00E9.
ChildBytes == {65, 195, 169}

\* What a child leaves behind when it exits: status and captured streams.
ChildOutputs(n) ==
    [status : {0, 1}, stdout : SeqsUpTo(ChildBytes, n), stderr : SeqsUpTo(ChildBytes, n)]

\* A blocking wait: the task would keep the scheduler's thread while its
\* child has not exited.
HoldsThreadBlocking(t) == pc[t] = "awaiting" /\ child[t].state # "exited"

\* A task suspended at an .await has yielded: it does not occupy the
\* scheduler's thread.
HoldsThread(t) == FALSE

\* Task t can be polled by the single-threaded scheduler.
CanRun(t) == \A u \in Tasks \ {t} : ~HoldsThread(u)

\* A status test that would take every exit for a success.
SuccessAlways(o) == TRUE

\* output.status.success()
Success(o) == o.status = 0

\* A relay that would hand stderr to write_all.
RelayedBytesStderr(o) == o.stderr

\* The bytes handed to write_all: &output.stdout
RelayedBytes(o) == o.stdout

\* An else branch of wait that would decode stdout.
wait_failure_stdout(shell, cmd, o) ==
    LET s == FromUtf8(o.stdout)
    IN  IF s.tag = "Ok" THEN subprocess_with_str(shell, cmd, s.val)
        ELSE subprocess(shell, cmd)

\* The else branch of wait: the error built from the captured stderr.
wait_failure(shell, cmd, o) ==
    LET s == FromUtf8(o.stderr)
    IN  IF s.tag = "Ok" THEN subprocess_with_str(shell, cmd, s.val)
        ELSE subprocess(shell, cmd)

\* A flush that would return while accepted bytes are unwritten.
FlushReadyEarly(t) == TRUE

\* flush() returns once every byte the handle accepted has been written.
FlushReady(t) == buffered[t] = <<>>

\* What wait_with_output() hands back for an exited child.
Collected(t) ==
    [captured |-> TRUE, status |-> child[t].status, stdout |-> child[t].stdout,
     stderr |-> child[t].stderr]

\* The OS process ends: exit status and the bytes it wrote to its pipes.
ChildExit(t, o) ==
    /\ child[t].state = "running"
    /\ ~child[t].hung
    /\ child' = [child EXCEPT
                   ![t] = [state |-> "exited", hung |-> FALSE,
                           shell |-> child[t].shell, cmd |-> child[t].cmd,
                           status |-> o.status, stdout |-> o.stdout,
                           stderr |-> o.stderr]]
    /\ UNCHANGED <<pc, event, env, output, sent, buffered, hostStdout, result, rp>>

\* wait(self) is called: the handle is consumed and the task suspends at
\* wait_with_output().await.
WaitCall(t) ==
    /\ pc[t] = "spawned"
    /\ CanRun(t)
    /\ pc' = [pc EXCEPT ![t] = "awaiting"]
    /\ UNCHANGED <<event, env, child, output, sent, buffered, hostStdout, result, rp>>

\* wait_with_output() fails with an I/O error.
WaitOutputFail(t, cause) ==
    /\ pc[t] = "awaiting"
    /\ CanRun(t)
    /\ pc' = [pc EXCEPT ![t] = "done"]
    /\ result' = [result EXCEPT
                    ![t] = Err(subprocess_with_err(child[t].shell, child[t].cmd, cause))]
    /\ UNCHANGED <<event, env, child, output, sent, buffered, hostStdout, rp>>

\* wait_with_output() completes: branch on the exit status.
WaitOutput(t) ==
    /\ pc[t] = "awaiting"
    /\ child[t].state = "exited"
    /\ CanRun(t)
    /\ output' = [output EXCEPT ![t] = Collected(t)]
    /\ IF Success(Collected(t))
       THEN /\ pc' = [pc EXCEPT
                        ![t] = IF Len(RelayedBytes(Collected(t))) = 0
                               THEN "flushing" ELSE "writing"]
            /\ sent' = [sent EXCEPT ![t] = 0]
            /\ UNCHANGED result
       ELSE /\ pc' = [pc EXCEPT ![t] = "done"]
            /\ result' = [result EXCEPT
                            ![t] = Err(wait_failure(child[t].shell, child[t].cmd,
                                                    Collected(t)))]
            /\ UNCHANGED sent
    /\ UNCHANGED <<event, env, child, buffered, hostStdout, rp>>

\* One poll_write of write_all: the task's Stdout handle accepts the next n
\* bytes once its previous chunk has been written; write_all returns when
\* every byte has been accepted.
PollWrite(t, n) ==
    /\ pc[t] = "writing"
    /\ CanRun(t)
    /\ buffered[t] = <<>>
    /\ n >= 1
    /\ sent[t] + n <= Len(RelayedBytes(output[t]))
    /\ buffered' = [buffered EXCEPT
                      ![t] = SubSeq(RelayedBytes(output[t]), sent[t] + 1, sent[t] + n)]
    /\ sent' = [sent EXCEPT ![t] = sent[t] + n]
    /\ pc' = [pc EXCEPT
                ![t] = IF sent[t] + n = Len(RelayedBytes(output[t]))
                       THEN "flushing" ELSE "writing"]
    /\ UNCHANGED <<event, env, child, output, hostStdout, result, rp>>

\* The blocking write of an accepted chunk reaches the host's stdout.
Drain(t) ==
    /\ buffered[t] # <<>>
    /\ hostStdout' = hostStdout \o [i \in 1..Len(buffered[t]) |-> <<t, buffered[t][i]>>]
    /\ buffered' = [buffered EXCEPT ![t] = <<>>]
    /\ UNCHANGED <<pc, event, env, child, output, sent, result, rp>>

\* flush().await completes and wait returns Ok(()).
Flush(t) ==
    /\ pc[t] = "flushing"
    /\ CanRun(t)
    /\ FlushReady(t)
    /\ pc' = [pc EXCEPT ![t] = "done"]
    /\ result' = [result EXCEPT ![t] = Ok(Unit)]
    /\ UNCHANGED <<event, env, child, output, sent, buffered, hostStdout, rp>>

\* write_all or flush fails with an I/O error; the chunk in flight is lost.
StdoutFail(t, cause) ==
    /\ pc[t] \in {"writing", "flushing"}
    /\ CanRun(t)
    /\ pc' = [pc EXCEPT ![t] = "done"]
    /\ buffered' = [buffered EXCEPT ![t] = <<>>]
    /\ result' = [result EXCEPT
                    ![t] = Err(subprocess_with_err(child[t].shell, child[t].cmd, cause))]
    /\ UNCHANGED <<event, env, child, output, sent, hostStdout, rp>>

\* ------------------------------------------------------------------------
\* Specifications
\* ------------------------------------------------------------------------
\* One spawn/wait pair with every captured output up to MaxOut bytes.
LifeEvents ==
    { [variant |-> "RepeatChanged", repeat |-> TRUE],
      [variant |-> "Preloading", track_id |-> [id |-> 0, encodable |-> TRUE]] }

LifeSpawns == SpawnOutcomes({FALSE})
LifeOutputs == ChildOutputs(MaxOut)

Next ==
    \/ \E sh \in Shells, cmd \in Cmds, ev \in LifeEvents, os \in LifeSpawns :
          SpawnProgramOnEvent(1, sh, cmd, ev, os)
    \/ \E o \in LifeOutputs : ChildExit(1, o)
    \/ WaitCall(1)
    \/ \E c \in OsErrors : WaitOutputFail(1, c)
    \/ WaitOutput(1)
    \/ \E n \in 1..MaxOut : PollWrite(1, n)
    \/ Drain(1)
    \/ Flush(1)
    \/ \E c \in OsErrors : StdoutFail(1, c)

Spec == Init /\ [][Next]_vars

\* The encoder on every event.
EncNext ==
    \E sh \in Shells, cmd \in Cmds, ev \in Events, os \in LifeSpawns :
        SpawnProgramOnEvent(1, sh, cmd, ev, os)

EncSpec == Init /\ [][EncNext]_vars

\* run_program on every output up to MaxLen bytes.
RunInputs == RunOutputs(MaxLen)

RunNext ==
    \E sh \in Shells, cmd \in Cmds, o \in RunInputs : RunProgram(sh, cmd, o)

RunSpec == Init /\ [][RunNext]_vars

\* Several spawn/wait pairs in flight; children may hang.
ConcEvents == {[variant |-> "RepeatChanged", repeat |-> TRUE]}
ConcErrors == {"EPIPE"}
ConcSpawns == [tag : {"Ok"}, hung : BOOLEAN]
ConcOutputs ==
    { [status |-> 0, stdout |-> [i \in 1..MaxConcOut |-> 65], stderr |-> <<>>],
      [status |-> 1, stdout |-> <<65>>, stderr |-> <<195, 169>>] }

ConcNext ==
    \E t \in Tasks :
        \/ \E sh \in Shells, cmd \in Cmds, ev \in ConcEvents :
              \E os \in ConcSpawns : SpawnProgramOnEvent(t, sh, cmd, ev, os)
        \/ \E o \in ConcOutputs : ChildExit(t, o)
        \/ WaitCall(t)
        \/ \E c \in ConcErrors : WaitOutputFail(t, c)
        \/ WaitOutput(t)
        \/ \E n \in 1..MaxConcOut : PollWrite(t, n)
        \/ Drain(t)
        \/ Flush(t)
        \/ \E c \in ConcErrors : StdoutFail(t, c)

ConcSpec == Init /\ [][ConcNext]_vars

\* The concurrent specification under the scheduling the runtime gives:
\* a task that can make progress is eventually polled, and an accepted
\* chunk is eventually written by the blocking pool.
FairSpec ==
    /\ ConcSpec
    /\ \A t \in Tasks :
          /\ WF_vars(WaitOutput(t))
          /\ WF_vars(\E n \in 1..MaxConcOut : PollWrite(t, n))
          /\ WF_vars(Drain(t))
          /\ WF_vars(Flush(t))

\* ------------------------------------------------------------------------
\* Properties of the encoder
\* ------------------------------------------------------------------------
Encoded(t) == pc[t] \in {"spawned", "spawn_failed"}

\* The variant table of the specification: token and fields.
TableToken ==
    [PlayRequestIdChanged |-> "playrequestid_changed", Stopped |-> "stop",
     Loading |-> "load", Preloading |-> "preloading", Playing |-> "start",
     Paused |-> "pause", TimeToPreloadNextTrack |-> "preload",
     EndOfTrack |-> "endoftrack", Unavailable |-> "unavailable",
     VolumeChanged |-> "volumeset", PositionCorrection |-> "positioncorrection",
     Seeked |-> "seeked", TrackChanged |-> "change",
     SessionConnected |-> "sessionconnected",
     SessionDisconnected |-> "sessiondisconnected",
     SessionClientChanged |-> "clientchanged", ShuffleChanged |-> "shuffle_changed",
     RepeatChanged |-> "repeat_changed", AutoPlayChanged |-> "autoplay_changed",
     FilterExplicitContentChanged |-> "filterexplicit_changed"]

TableFields ==
    [PlayRequestIdChanged |-> {"PLAY_REQUEST_ID"},
     Stopped |-> {"TRACK_ID", "PLAY_REQUEST_ID"},
     Loading |-> {"TRACK_ID", "PLAY_REQUEST_ID", "POSITION_MS"},
     Preloading |-> {"TRACK_ID"},
     Playing |-> {"TRACK_ID", "PLAY_REQUEST_ID", "POSITION_MS"},
     Paused |-> {"TRACK_ID", "PLAY_REQUEST_ID", "POSITION_MS"},
     TimeToPreloadNextTrack |-> {"TRACK_ID", "PLAY_REQUEST_ID"},
     EndOfTrack |-> {"TRACK_ID", "PLAY_REQUEST_ID"},
     Unavailable |-> {"TRACK_ID", "PLAY_REQUEST_ID"},
     VolumeChanged |-> {"VOLUME"},
     PositionCorrection |-> {"TRACK_ID", "PLAY_REQUEST_ID", "POSITION_MS"},
     Seeked |-> {"TRACK_ID", "PLAY_REQUEST_ID", "POSITION_MS"},
     TrackChanged |-> {"TRACK_ID", "TRACK_NAME", "TRACK_DURATION"},
     SessionConnected |-> {"CONNECTION_ID", "USERNAME"},
     SessionDisconnected |-> {"CONNECTION_ID", "USERNAME"},
     SessionClientChanged |-> {"CLIENT_ID", "CLIENT_NAME", "CLIENT_BRAND", "CLIENT_MODEL"},
     ShuffleChanged |-> {"SHUFFLE"},
     RepeatChanged |-> {"REPEAT"},
     AutoPlayChanged |-> {"AUTOPLAY"},
     FilterExplicitContentChanged |-> {"FILTEREXPLICIT"}]

HasCover(ev) == ev.variant = "TrackChanged" /\ ev.audio_item.covers # <<>>

\* C1: the map the encoder builds has PLAYER_EVENT equal to the token of the
\* variant table and exactly the keys PLAYER_EVENT plus the variant's fields;
\* TRACK_COVER is a key only for TrackChanged with at least one cover.
C1_EnvMatchesTable ==
    \A t \in Tasks :
        Encoded(t) =>
            LET v == event[t].variant
            IN  /\ "PLAYER_EVENT" \in DOMAIN env[t]
                /\ env[t]["PLAYER_EVENT"] = TableToken[v]
                /\ DOMAIN env[t] =
                      {"PLAYER_EVENT"} \cup TableFields[v]
                      \cup (IF HasCover(event[t]) THEN {"TRACK_COVER"} ELSE {})

C1_Witness ==
    \E t \in Tasks :
        /\ Encoded(t)
        /\ event[t].variant = "TrackChanged"
        /\ event[t].audio_item.covers = <<>>
        /\ DOMAIN env[t] = {"PLAYER_EVENT", "TRACK_ID", "TRACK_NAME", "TRACK_DURATION"}

\* The variants that carry a track identifier, and the identifier.
CarriesTrackId(ev) ==
    ev.variant \in {"Stopped", "Loading", "Preloading", "Playing", "Paused",
                    "TimeToPreloadNextTrack", "EndOfTrack", "Unavailable",
                    "PositionCorrection", "Seeked", "TrackChanged"}

CarriedTrackId(ev) ==
    IF ev.variant = "TrackChanged" THEN ev.audio_item.track_id ELSE ev.track_id

\* C2: for an event whose track identifier has no base62 encoding the
\* encoder still completes, with a map that has no TRACK_ID key.
C2_UndefinedIdOmitsKey ==
    \A t \in Tasks :
        (/\ pc[t] # "idle"
         /\ CarriesTrackId(event[t])
         /\ ToBase62(CarriedTrackId(event[t])).tag = "Err")
        => (Encoded(t) /\ "TRACK_ID" \notin DOMAIN env[t])

Widths(covers) == {covers[i].width : i \in DOMAIN covers}
MaxWidth(covers) == CHOOSE w \in Widths(covers) : \A x \in Widths(covers) : x <= w
Widest(covers) == {i \in DOMAIN covers : covers[i].width = MaxWidth(covers)}
FirstWidest(covers) == CHOOSE i \in Widest(covers) : \A j \in Widest(covers) : i <= j
LastWidest(covers) == CHOOSE i \in Widest(covers) : \A j \in Widest(covers) : j <= i

\* C3 as stated: TRACK_COVER is the URL of the first cover of maximal width.
C3_FirstWidestCover ==
    \A t \in Tasks :
        (Encoded(t) /\ HasCover(event[t])) =>
            LET covers == event[t].audio_item.covers
            IN  env[t]["TRACK_COVER"] = covers[FirstWidest(covers)].url

\* C3 (amended): TRACK_COVER is the URL of a cover of maximal width, and of
\* the last such cover in list order when several share that width.
C3_LastWidestCover ==
    \A t \in Tasks :
        (Encoded(t) /\ HasCover(event[t])) =>
            LET covers == event[t].audio_item.covers
            IN  env[t]["TRACK_COVER"] = covers[LastWidest(covers)].url

C3_Witness ==
    \E t \in Tasks :
        /\ Encoded(t)
        /\ HasCover(event[t])
        /\ LET covers == event[t].audio_item.covers
           IN  /\ Cardinality(Widest(covers)) >= 2
               /\ covers[FirstWidest(covers)].url # covers[LastWidest(covers)].url
               /\ env[t]["TRACK_COVER"] = covers[LastWidest(covers)].url

\* C9: REPEAT is "all" or "none" after the boolean and never "true" or
\* "false"; SHUFFLE, AUTOPLAY and FILTEREXPLICIT are "true" or "false"
\* after the boolean.
C9_BooleanTexts ==
    \A t \in Tasks :
        Encoded(t) =>
            LET ev == event[t]
            IN  /\ ev.variant = "RepeatChanged" =>
                      /\ env[t]["REPEAT"] = (IF ev.repeat THEN "all" ELSE "none")
                      /\ env[t]["REPEAT"] \notin {"true", "false"}
                /\ ev.variant = "ShuffleChanged" =>
                      env[t]["SHUFFLE"] = (IF ev.shuffle THEN "true" ELSE "false")
                /\ ev.variant = "AutoPlayChanged" =>
                      env[t]["AUTOPLAY"] = (IF ev.auto_play THEN "true" ELSE "false")
                /\ ev.variant = "FilterExplicitContentChanged" =>
                      env[t]["FILTEREXPLICIT"] = (IF ev.filter THEN "true" ELSE "false")

C9_Witness ==
    \E t \in Tasks :
        /\ Encoded(t)
        /\ event[t].variant = "RepeatChanged"
        /\ ~event[t].repeat
        /\ env[t]["REPEAT"] = "none"

\* ------------------------------------------------------------------------
\* Properties of the runner
\* ------------------------------------------------------------------------
\* The bytes task t has put on the host's stdout, in order.
RECURSIVE BytesOf(_, _)
BytesOf(h, t) ==
    IF h = <<>> THEN <<>>
    ELSE (IF Head(h)[1] = t THEN <<Head(h)[2]>> ELSE <<>>) \o BytesOf(Tail(h), t)

Returned(t) == pc[t] = "done"
Exited(t) == child[t].state = "exited"

\* C4: wait returns Ok only for a child that exited with status zero, and
\* only after that child's complete captured stdout has reached the host's
\* stdout, unchanged and exactly once, with nothing left unflushed.
C4_OkAfterRelayAndFlush ==
    \A t \in Tasks :
        (Returned(t) /\ result[t].tag = "Ok") =>
            /\ Exited(t)
            /\ child[t].status = 0
            /\ BytesOf(hostStdout, t) = child[t].stdout
            /\ buffered[t] = <<>>

C4_Witness ==
    \E t \in Tasks :
        /\ Returned(t)
        /\ result[t].tag = "Ok"
        /\ Len(child[t].stdout) >= 2
        /\ child[t].stdout # child[t].stderr
        /\ BytesOf(hostStdout, t) = child[t].stdout

\* C5: a child that exited with non-zero status makes wait return an error,
\* never Ok; when its output was captured the error carries shell, command
\* and exactly the decoded stderr if stderr is valid text, and otherwise
\* only shell and command, with no text and no OS cause.
C5_FailureError ==
    \A t \in Tasks :
        (Returned(t) /\ Exited(t) /\ child[t].status # 0) =>
            /\ result[t].tag = "Err"
            /\ result[t].err.shell = child[t].shell
            /\ result[t].err.cmd = child[t].cmd
            /\ output[t].captured =>
                  LET s == FromUtf8(child[t].stderr)
                  IN  IF s.tag = "Ok"
                      THEN result[t].err.msg = [kind |-> "String", text |-> s.val]
                      ELSE result[t].err.msg = [kind |-> "None"]

C5_Witness ==
    \E t \in Tasks :
        /\ Returned(t)
        /\ Exited(t)
        /\ child[t].status # 0
        /\ output[t].captured
        /\ child[t].stderr = <<195, 169>>
        /\ child[t].stdout = <<65>>
        /\ result[t].err.msg = [kind |-> "String", text |-> <<233>>]

\* C6: run_program returns the spawn error with the OS cause when the shell
\* cannot be launched; on non-zero exit the command error with the decoded
\* stderr, or the generic error when stderr is not valid text; on zero exit
\* the generic error when stdout is not valid text, and otherwise Ok with
\* the decoded stdout.
C6_RunProgramOutcome ==
    rp.called =>
        LET o == rp.output
            r == rp.result
            e == [shell |-> rp.shell, cmd |-> rp.cmd]
        IN  /\ r.tag \in {"Ok", "Err"}
            /\ o.tag = "Err" =>
                  r = Err(e @@ [msg |-> [kind |-> "Error", cause |-> o.cause]])
            /\ (o.tag = "Ok" /\ o.status # 0) =>
                  IF FromUtf8(o.stderr).tag = "Ok"
                  THEN r = Err(e @@ [msg |-> [kind |-> "String",
                                              text |-> FromUtf8(o.stderr).val]])
                  ELSE r = Err(e @@ [msg |-> [kind |-> "None"]])
            /\ (o.tag = "Ok" /\ o.status = 0) =>
                  IF FromUtf8(o.stdout).tag = "Ok"
                  THEN r = Ok(FromUtf8(o.stdout).val)
                  ELSE r = Err(e @@ [msg |-> [kind |-> "None"]])

C6_Witness ==
    /\ rp.called
    /\ rp.output.tag = "Ok"
    /\ rp.output.status # 0
    /\ rp.output.stdout = <<65>>
    /\ rp.output.stderr = <<195, 169>>
    /\ rp.result = Err(subprocess_with_str(rp.shell, rp.cmd, <<233>>))

\* C7 as stated: once wait has returned, a child that exited with success
\* has its stdout relayed and wait returned success, and a child that exited
\* with failure has nothing relayed and wait returned an error.
C7_ExitDecidesTerminal ==
    \A t \in Tasks :
        (Returned(t) /\ Exited(t)) =>
            IF child[t].status = 0
            THEN result[t].tag = "Ok" /\ BytesOf(hostStdout, t) = child[t].stdout
            ELSE result[t].tag = "Err" /\ BytesOf(hostStdout, t) = <<>>

\* The order in which a spawn/wait pair moves on.
PcEdges ==
    { <<"idle", "panicked">>, <<"idle", "spawn_failed">>, <<"idle", "spawned">>,
      <<"spawned", "awaiting">>,
      <<"awaiting", "writing">>, <<"awaiting", "flushing">>, <<"awaiting", "done">>,
      <<"writing", "flushing">>, <<"writing", "done">>,
      <<"flushing", "done">> }

ChildEdges == { <<"none", "running">>, <<"running", "exited">> }

C7_Terminal(t) ==
    Returned(t) =>
        /\ result[t].tag \in {"Ok", "Err"}
        /\ result[t].tag = "Ok" =>
              /\ Exited(t) /\ child[t].status = 0
              /\ BytesOf(hostStdout, t) = child[t].stdout
        /\ (Exited(t) /\ child[t].status # 0) =>
              /\ result[t].tag = "Err"
              /\ BytesOf(hostStdout, t) = <<>>
        /\ (Exited(t) /\ child[t].status = 0 /\ result[t].tag = "Err") =>
              result[t].err.msg.kind = "Error"

C7_Step(t) ==
    /\ pc'[t] # pc[t] => <<pc[t], pc'[t]>> \in PcEdges
    /\ child'[t].state # child[t].state => <<child[t].state, child'[t].state>> \in ChildEdges
    /\ pc[t] \in {"awaiting", "writing", "flushing"} => child'[t].state # "none"
    /\ Returned(t) =>
          /\ pc'[t] = "done"
          /\ result'[t] = result[t]
          /\ BytesOf(hostStdout', t) = BytesOf(hostStdout, t)

\* C7 (amended): a waited child goes Spawned, Running, Exited and then to
\* exactly one terminal state; success ends in Relayed unless collecting
\* the output or writing or flushing the host's stdout fails with an I/O
\* error, which wait returns as an error with the OS cause; failure ends in
\* ErrorReported with nothing relayed.  A handle is waited at most once, the
\* result is surfaced once and never changes, and nothing is respawned.
C7_Lifecycle ==
    /\ [](\A t \in Tasks : C7_Terminal(t))
    /\ [][\A t \in Tasks : C7_Step(t)]_vars

C7_Witness ==
    \E t \in Tasks :
        /\ Returned(t)
        /\ Exited(t)
        /\ child[t].status # 0
        /\ child[t].stdout # <<>>
        /\ result[t].tag = "Err"
        /\ hostStdout = <<>>

\* C8: a child that never exits blocks only the task awaiting it: every
\* task awaiting a child that has exited eventually has its wait return.
C8_HungChildBlocksOnlyItsTask ==
    \A t \in Tasks :
        (pc[t] = "awaiting" /\ Exited(t)) ~> Returned(t)

C8_Witness ==
    \E t, u \in Tasks :
        /\ t # u
        /\ pc[u] = "awaiting"
        /\ child[u].state = "running"
        /\ child[u].hung
        /\ Returned(t)
        /\ Exited(t)
        /\ result[t].tag = "Ok"

\* C10: on the host's stdout the bytes of one child's output are never
\* interleaved with the bytes of another child's output.
C10_ContiguousBlocks ==
    \A i, j, k \in DOMAIN hostStdout :
        (i < j /\ j < k /\ hostStdout[i][1] = hostStdout[k][1])
        => hostStdout[j][1] = hostStdout[i][1]

====
